---- MODULE Spec2Model ----
(***************************************************************************)
(* Model of the student record service (src/src/services/studentService.js)*)
(* talking to one DynamoDB table.  Callers are the concurrent invocations  *)
(* of the service's public methods (the UI starts several without waiting  *)
(* for one another, and several browser tabs share the table).  Every      *)
(* await of a store command is one step; the store answers each command    *)
(* atomically.                                                             *)
(***************************************************************************)
EXTENDS Integers, Sequences, FiniteSets, TLC

VARIABLES
    tableStatus,  \* the store's table: "ABSENT", "CREATING" or "ACTIVE"
    items,        \* the table's items: id -> (attribute name -> value)
    clock,        \* the wall clock in milliseconds (Date.now())
    faultsLeft,   \* number of commands the store may still answer with a fault
    calls,        \* number of calls started so far
    call,         \* call[c]: the state of caller c's current (or last) call
    allowed,      \* the store actions the caller's credentials are granted
    ui            \* the state of the StudentManagement component

vars == <<tableStatus, items, clock, faultsLeft, calls, call, allowed, ui>>

(***************************************************************************)
(* Bounds of the model.                                                    *)
(***************************************************************************)
Callers == {"c1", "c2"}
ClockStart == 9      \* first clock value
ClockSpan == 1       \* the clock runs from ClockStart to ClockStart + ClockSpan
MaxFaults == 1       \* store faults per behaviour while records are handled
MaxCalls == 2        \* calls of the service's methods per behaviour

(***************************************************************************)
(* Program constants.                                                      *)
(***************************************************************************)
maxAttempts == 30

(***************************************************************************)
(* Strings are sequences of one-character strings.  JavaScript values that *)
(* a caller can pass in an object are a string, null or undefined.         *)
(***************************************************************************)
Str(s) == [t |-> "string", s |-> s]
Null == [t |-> "null", s |-> <<>>]
Undefined == [t |-> "undefined", s |-> <<>>]

DigitChars == <<"0", "1", "2", "3", "4", "5", "6", "7", "8", "9">>

\* Number.prototype.toString(): the decimal digits, most significant first.
RECURSIVE toString(_)
toString(n) ==
    IF n < 10 THEN <<DigitChars[n + 1]>>
    ELSE toString(n \div 10) \o <<DigitChars[(n % 10) + 1]>>

\* n in decimal, left-padded with zeros to w characters (n < 10^w).
RECURSIVE Pad(_, _)
Pad(n, w) ==
    IF w = 0 THEN <<>> ELSE Pad(n \div 10, w - 1) \o <<DigitChars[(n % 10) + 1]>>

\* Date.prototype.toISOString() of t milliseconds after the epoch, for a t
\* within the first day: "1970-01-01THH:mm:ss.sssZ".
toISOString(t) ==
    <<"1", "9", "7", "0", "-", "0", "1", "-", "0", "1", "T">>
        \o Pad(t \div 3600000, 2) \o <<":">>
        \o Pad((t \div 60000) % 60, 2) \o <<":">>
        \o Pad((t \div 1000) % 60, 2) \o <<".">>
        \o Pad(t % 1000, 3) \o <<"Z">>

\* The order of characters by code unit, for the characters of a timestamp.
CharCode(ch) ==
    CASE ch = "-" -> 45 [] ch = "." -> 46 [] ch = ":" -> 58
      [] ch = "T" -> 84 [] ch = "Z" -> 90
      [] OTHER -> 48 + (CHOOSE d \in 0..9 : DigitChars[d + 1] = ch)

\* a < b for strings, as JavaScript compares them (by code unit, then length).
StrLess(a, b) ==
    \E i \in 1..(Len(b)) :
        /\ \A j \in 1..(i - 1) : j <= Len(a) /\ a[j] = b[j]
        /\ \/ i = Len(a) + 1
           \/ i <= Len(a) /\ CharCode(a[i]) < CharCode(b[i])

(***************************************************************************)
(* Error messages.  A message is the sequence of its parts: wrapping       *)
(* `${prefix}: ${error.message}` puts the prefix in front of the parts of  *)
(* the cause.                                                              *)
(***************************************************************************)
NoError == <<>>
Wrap(prefix, message) == <<prefix>> \o message

\* line 40: throw new Error(`Failed to ensure table exists: ${error.message}`)
EnsureError(message) == Wrap("Failed to ensure table exists", message)
\* line 108: throw new Error(`Failed to create table: ${error.message}`)
CreateTableError(message) == Wrap("Failed to create table", message)
\* line 141: the timeout of waitForTableActive
TimeoutError == <<"Table students-table did not become active within 30 seconds">>

(***************************************************************************)
(* The calls.  A request names the method and carries its arguments: the   *)
(* id, the object of fields (student or updatedData) and the query string. *)
(***************************************************************************)
Fields == {"fullName", "address", "email", "phoneNumber"}

Methods ==
    {"ensureStudentTableExists", "createStudent", "getAllStudents",
     "getStudentById", "updateStudent", "deleteStudent", "searchStudents",
     "getStudentsByAddress", "getStudentsByEmailDomain"}

\* The objects the form hands to createStudent (StudentManagement.jsx:113).
StudentInputs ==
    { [fullName |-> Str(<<"A", "b">>), address |-> Str(<<"Y">>),
       email |-> Str(<<"a", "@", "f">>), phoneNumber |-> Str(<<"1">>)],
      [fullName |-> Str(<<"a", "b">>), address |-> Str(<<"y">>),
       email |-> Str(<<"b", "@", "g">>), phoneNumber |-> Str(<<"2">>)] }

\* The objects handed to updateStudent: any subset of the fields, a value
\* being a string, null or undefined.
UpdateInputs ==
    { [k \in {"fullName"} |-> Str(<<"B">>)],
      [k \in {"phoneNumber", "email", "address"} |->
          CASE k = "phoneNumber" -> Str(<<"3">>)
            [] k = "email" -> Null
            [] k = "address" -> Undefined] }

NoData == [k \in {} |-> Null]

\* The id a caller asks for: the first one createStudent can produce, which
\* is stored or not when the caller asks.
Ids == {toString(ClockStart)}

Queries == {Str(<<" ">>), Str(<<"b">>)}

Request(method, id, data, query) ==
    [method |-> method, id |-> id, data |-> data, query |-> query]

Requests ==
    {Request(m, <<>>, NoData, Undefined) : m \in {"ensureStudentTableExists", "getAllStudents"}}
    \cup {Request("createStudent", <<>>, d, Undefined) : d \in StudentInputs}
    \cup {Request(m, i, NoData, Undefined) : m \in {"getStudentById", "deleteStudent"}, i \in Ids}
    \cup {Request("updateStudent", i, d, Undefined) : i \in Ids, d \in UpdateInputs}
    \cup {Request("searchStudents", <<>>, NoData, q) : q \in Queries}
    \cup {Request(m, <<>>, NoData, q) :
            m \in {"getStudentsByAddress", "getStudentsByEmailDomain"},
            q \in {Str(<<"f">>)}}

\* The fixed message each method throws from its catch block.
FailureMessage(method) ==
    CASE method = "createStudent" -> <<"Failed to create student">>
      [] method = "getAllStudents" -> <<"Failed to fetch students">>
      [] method = "getStudentById" -> <<"Failed to fetch student">>
      [] method = "updateStudent" -> <<"Failed to update student">>
      [] method = "deleteStudent" -> <<"Failed to delete student">>
      [] method = "searchStudents" -> <<"Failed to search students">>
      [] method = "getStudentsByAddress" -> <<"Failed to fetch students by address">>
      [] method = "getStudentsByEmailDomain" -> <<"Failed to fetch students by email domain">>
      [] method = "getTableInfo" -> <<"Failed to get table information">>

(***************************************************************************)
(* The state of one call.  pc is the command the caller is about to send   *)
(* (or "idle", "done", "failed"); log records what the call has sent and   *)
(* seen, and is read by the properties only.                               *)
(***************************************************************************)
NoParams == [kind |-> "none"]
NoResult == [kind |-> "none"]

NewLog(afterOk) ==
    [checks |-> 0,          \* DescribeTable commands sent by checkTableExists
     creates |-> 0,         \* CreateTable commands sent
     polls |-> 0,           \* DescribeTable commands sent by waitForTableActive
     data |-> 0,            \* data commands sent
     dataOn |-> "none",     \* the table's status when the data command arrived
     ensure |-> "none",     \* how ensureStudentTableExists ended
     ensureError |-> NoError,   \* the message it threw
     before |-> [kind |-> "none"],  \* what the data command found under its key
     sawActive |-> FALSE,   \* a poll was answered with status ACTIVE
     afterOk |-> afterOk]   \* the caller's previous ensure returned true

IdleCall ==
    [pc |-> "idle", req |-> Request("ensureStudentTableExists", <<>>, NoData, Undefined),
     inner |-> FALSE, attempts |-> 0, params |-> NoParams, result |-> NoResult,
     error |-> NoError, log |-> NewLog(FALSE)]

\* return value;
Return(st, value) == [st EXCEPT !.pc = "done", !.result = value]
\* throw new Error(message), not caught inside the service
Throw(st, message) == [st EXCEPT !.pc = "failed", !.error = message]

\* The catch block as if it threw the error it caught.
Catch_Rethrow(st, message) == Throw(st, message)

\* The catch block of a record method: it logs the error it caught and throws
\* the method's own message.  Inside searchStudents, getAllStudents' catch
\* block throws first and searchStudents' catch block catches that.
Catch(st, message) == Throw(st, FailureMessage(st.req.method))

\* deleteStudent as if it did not ensure the table first.
FirstStep_DeleteUnensured(method) ==
    IF method = "deleteStudent" THEN "delete"
    ELSE IF method = "getTableInfo" THEN "info" ELSE "check"

\* The first command of a call: every record method starts with
\* checkTableExists, reached through ensureStudentTableExists; getTableInfo
\* describes the table straight away.
FirstStep(method) == IF method = "getTableInfo" THEN "info" ELSE "check"

\* String.prototype.trim() for the one whitespace character of the model.
RECURSIVE trim(_)
trim(s) ==
    IF s = <<>> THEN s
    ELSE IF Head(s) = " " THEN trim(Tail(s))
    ELSE IF s[Len(s)] = " " THEN trim(SubSeq(s, 1, Len(s) - 1))
    ELSE s

\* The test of line 319 as if it did not trim the query.
BlankQuery_NoTrim(q) == q.t # "string" \/ q.s = <<>>

\* line 319: !query || query.trim() === ''
BlankQuery(q) == q.t # "string" \/ q.s = <<>> \/ trim(q.s) = <<>>

\* What follows `await this.ensureStudentTableExists()` in each method.
AfterEnsure(st) ==
    LET m == st.req.method
    IN  CASE st.inner -> "scan"
          [] m = "ensureStudentTableExists" -> "done"
          [] m = "createStudent" -> "newStudent"
          [] m = "getAllStudents" -> "scan"
          [] m = "getStudentById" -> "get"
          [] m = "updateStudent" -> "updateExpression"
          [] m = "deleteStudent" -> "delete"
          [] m = "searchStudents" ->
                IF BlankQuery(st.req.query) THEN "check" ELSE "scan"
          [] OTHER -> "scan"

\* ensureStudentTableExists returns true (lines 30, 37).  searchStudents with
\* a blank query goes on into getAllStudents, which ensures the table again.
EnsureReturns(st) ==
    LET st1 == [st EXCEPT !.log.ensure = "ok"]
    IN  IF st.req.method = "ensureStudentTableExists"
        THEN Return(st1, [kind |-> "true"])
        ELSE [st1 EXCEPT !.pc = AfterEnsure(st1),
                         !.inner = st.inner \/ AfterEnsure(st1) = "check"]

\* ensureStudentTableExists catches an error and throws its wrapped form
\* (lines 38-41); a record method catches that in turn.
EnsureThrows(st, message) ==
    LET e == EnsureError(message)
        st1 == [st EXCEPT !.log.ensure = "failed", !.log.ensureError = e]
    IN  IF st.req.method = "ensureStudentTableExists"
        THEN Throw(st1, e)
        ELSE Catch(st1, e)

(***************************************************************************)
(* The store's table commands.  A command is answered with a result or an  *)
(* exception; `faulty` is the store (or the network) failing the command   *)
(* for a reason of its own, without effect.                                *)
(***************************************************************************)
FaultChoices == IF faultsLeft > 0 THEN {FALSE, TRUE} ELSE {FALSE}
SpendFault(faulty) == IF faulty THEN faultsLeft - 1 ELSE faultsLeft

Answer(value) == [ok |-> TRUE, value |-> value, name |-> ""]
Exception(name) == [ok |-> FALSE, value |-> "", name |-> name]

DescribeTableCommand(status, faulty) ==
    IF faulty THEN Exception("InternalServerError")
    ELSE IF status = "ABSENT" THEN Exception("ResourceNotFoundException")
    ELSE Answer(status)

CreateTableCommand(status, faulty) ==
    IF faulty THEN Exception("InternalServerError")
    ELSE IF status # "ABSENT" THEN Exception("ResourceInUseException")
    ELSE Answer("CREATING")

\* The store actions the service sends, as an access policy names them.
StoreActions ==
    {"dynamodb:DescribeTable", "dynamodb:CreateTable", "dynamodb:GetItem",
     "dynamodb:PutItem", "dynamodb:UpdateItem", "dynamodb:DeleteItem",
     "dynamodb:Scan"}

\* The store refuses a command whose action the credentials are not granted,
\* before looking at the table.
Granted(action) == action \in allowed
Authorized(action, resp) ==
    IF Granted(action) THEN resp ELSE Exception("AccessDeniedException")

\* The StudentManagement component is not on the page.
Unmounted == [tableStatus |-> "unmounted"]

(***************************************************************************)
(* The table lifecycle: ensureStudentTableExists, checkTableExists,        *)
(* createStudentTable and waitForTableActive, each as the caller's state   *)
(* after the store's answer.                                               *)
(***************************************************************************)
\* checkTableExists as if it reported the table missing whatever the answer.
checkTableExists_AlwaysMissing(st, resp) ==
    [st EXCEPT !.log.checks = @ + 1, !.pc = "create"]

\* lines 45-61, and lines 26-31 and 38-41 of ensureStudentTableExists.
checkTableExists(st, resp) ==
    LET st1 == [st EXCEPT !.log.checks = @ + 1]
    IN  IF resp.ok THEN EnsureReturns(st1)
        ELSE IF resp.name = "ResourceNotFoundException"
        THEN [st1 EXCEPT !.pc = "create"]
        ELSE EnsureThrows(st1, <<resp.name>>)

\* lines 98-109: the create request; its exception is wrapped twice.
createStudentTable(st, resp) ==
    LET st1 == [st EXCEPT !.log.creates = @ + 1]
    IN  IF resp.ok THEN [st1 EXCEPT !.pc = "poll", !.attempts = 0]
        ELSE EnsureThrows(st1, CreateTableError(<<resp.name>>))

\* waitForTableActive as if any answered describe ended the wait.
waitForTableActive_AnyStatus(st, resp) ==
    LET st1 == [st EXCEPT !.log.polls = @ + 1]
    IN  IF resp.ok
        THEN EnsureReturns([st1 EXCEPT !.log.sawActive = (resp.value = "ACTIVE")])
        ELSE [st1 EXCEPT !.attempts = @ + 1]

\* waitForTableActive as if its catch block did not count the attempt.
waitForTableActive_ThrowNotCounted(st, resp) ==
    LET st1 == [st EXCEPT !.log.polls = @ + 1]
    IN  IF resp.ok /\ resp.value = "ACTIVE"
        THEN EnsureReturns([st1 EXCEPT !.log.sawActive = TRUE])
        ELSE IF resp.ok THEN [st1 EXCEPT !.attempts = @ + 1]
        ELSE st1

\* lines 117-139: one turn of the loop, the describe and what follows it.
waitForTableActive(st, resp) ==
    LET st1 == [st EXCEPT !.log.polls = @ + 1]
    IN  IF resp.ok /\ resp.value = "ACTIVE"
        THEN EnsureReturns([st1 EXCEPT !.log.sawActive = TRUE])
        ELSE [st1 EXCEPT !.attempts = @ + 1]

\* line 141: the loop is left without a return.
waitTimedOut(st) == EnsureThrows(st, CreateTableError(TimeoutError))

\* getTableInfo as if it threw whatever exception the describe raised.
getTableInfo_ThrowsNotFound(st, resp) ==
    IF resp.ok
    THEN Return(st, [kind |-> "info",
                     value |-> [name |-> "students-table", status |-> resp.value]])
    ELSE Catch(st, <<resp.name>>)

\* lines 159-185: the table's metadata, null when the store knows no such
\* table, the method's own error for any other exception.
getTableInfo(st, resp) ==
    IF resp.ok
    THEN Return(st, [kind |-> "info",
                     value |-> [name |-> "students-table", status |-> resp.value]])
    ELSE IF resp.name = "ResourceNotFoundException"
    THEN Return(st, [kind |-> "null"])
    ELSE Catch(st, <<resp.name>>)

\* The table exists and is active, as the setup guide leaves it (Step 1).
Init ==
    /\ tableStatus = "ACTIVE"
    /\ items = [i \in {} |-> NoData]
    /\ clock = ClockStart
    /\ faultsLeft = MaxFaults
    /\ calls = 0
    /\ call = [c \in Callers |-> IdleCall]
    /\ allowed = StoreActions
    /\ ui = Unmounted

StoreUnchanged == UNCHANGED <<items, clock>>

\* A caller invokes a method of the service.
Start(c, r) ==
    /\ call[c].pc \in {"idle", "done", "failed"}
    /\ calls < MaxCalls
    /\ calls' = calls + 1
    /\ call' = [call EXCEPT ![c] =
                  [IdleCall EXCEPT !.pc = FirstStep(r.method), !.req = r,
                                   !.log = NewLog(call[c].log.ensure = "ok")]]
    /\ UNCHANGED <<tableStatus, faultsLeft, allowed, ui>>
    /\ StoreUnchanged

CheckTableExists(c) ==
    /\ call[c].pc = "check"
    /\ \E faulty \in FaultChoices :
         /\ call' = [call EXCEPT ![c] =
                       checkTableExists(@,
                           Authorized("dynamodb:DescribeTable",
                                      DescribeTableCommand(tableStatus, faulty)))]
         /\ faultsLeft' = SpendFault(faulty)
    /\ UNCHANGED <<tableStatus, calls, allowed, ui>>
    /\ StoreUnchanged

CreateStudentTable(c) ==
    /\ call[c].pc = "create"
    /\ \E faulty \in FaultChoices :
         LET resp == Authorized("dynamodb:CreateTable",
                                 CreateTableCommand(tableStatus, faulty))
         IN  /\ call' = [call EXCEPT ![c] = createStudentTable(@, resp)]
             /\ tableStatus' = IF resp.ok THEN resp.value ELSE tableStatus
             /\ faultsLeft' = SpendFault(faulty)
    /\ UNCHANGED <<calls, allowed, ui>>
    /\ StoreUnchanged

WaitForTableActive(c) ==
    /\ call[c].pc = "poll"
    /\ call[c].attempts < maxAttempts
    /\ \E faulty \in FaultChoices :
         /\ call' = [call EXCEPT ![c] =
                       waitForTableActive(@,
                           Authorized("dynamodb:DescribeTable",
                                      DescribeTableCommand(tableStatus, faulty)))]
         /\ faultsLeft' = SpendFault(faulty)
    /\ UNCHANGED <<tableStatus, calls, allowed, ui>>
    /\ StoreUnchanged

WaitTimedOut(c) ==
    /\ call[c].pc = "poll"
    /\ call[c].attempts >= maxAttempts
    /\ call' = [call EXCEPT ![c] = waitTimedOut(@)]
    /\ UNCHANGED <<tableStatus, faultsLeft, calls, allowed, ui>>
    /\ StoreUnchanged

GetTableInfo(c) ==
    /\ call[c].pc = "info"
    /\ \E faulty \in FaultChoices :
         /\ call' = [call EXCEPT ![c] =
                       getTableInfo(@,
                           Authorized("dynamodb:DescribeTable",
                                      DescribeTableCommand(tableStatus, faulty)))]
         /\ faultsLeft' = SpendFault(faulty)
    /\ UNCHANGED <<tableStatus, calls, allowed, ui>>
    /\ StoreUnchanged

\* The store finishes creating the table.
TableBecomesActive ==
    /\ tableStatus = "CREATING"
    /\ tableStatus' = "ACTIVE"
    /\ UNCHANGED <<faultsLeft, calls, call, allowed, ui>>
    /\ StoreUnchanged

\* A millisecond passes.
Tick ==
    /\ clock < ClockStart + ClockSpan
    /\ clock' = clock + 1
    /\ UNCHANGED <<tableStatus, items, faultsLeft, calls, call, allowed, ui>>

(***************************************************************************)
(* The table lifecycle alone: callers invoke ensureStudentTableExists      *)
(* directly (as initializeTable in StudentManagement.jsx does), and the    *)
(* store may fault as often as a whole poll lasts.                         *)
(***************************************************************************)
MaxTableFaults == 31

InitTable ==
    /\ tableStatus = "ABSENT"
    /\ items = [i \in {} |-> NoData]
    /\ clock = ClockStart
    /\ faultsLeft = MaxTableFaults
    /\ calls = 0
    /\ call = [c \in Callers |-> IdleCall]
    /\ allowed = StoreActions
    /\ ui = Unmounted

Lifecycle(c) ==
    \/ CheckTableExists(c)
    \/ CreateStudentTable(c)
    \/ WaitForTableActive(c)
    \/ WaitTimedOut(c)

NextTable ==
    \/ \E c \in Callers :
         Start(c, Request("ensureStudentTableExists", <<>>, NoData, Undefined))
    \/ \E c \in Callers : Lifecycle(c)
    \/ TableBecomesActive

SpecTable == InitTable /\ [][NextTable]_vars

(***************************************************************************)
(* The store's data commands.  Each needs the table to be ACTIVE: the      *)
(* store answers a command on an absent or CREATING table with             *)
(* ResourceNotFoundException.                                              *)
(***************************************************************************)
Item(kv) == [kind |-> "item", value |-> kv]
NullResult == [kind |-> "null"]

\* b's attributes, overridden and extended by a's.
Merge(a, b) ==
    [k \in DOMAIN a \cup DOMAIN b |-> IF k \in DOMAIN a THEN a[k] ELSE b[k]]

DataException(status, faulty) ==
    IF faulty THEN Exception("InternalServerError")
    ELSE Exception("ResourceNotFoundException")

Accepts(status, faulty) == status = "ACTIVE" /\ ~faulty

\* PutItem: the item replaces whatever is stored under its id.
PutCommand(its, item) ==
    [i \in DOMAIN its \cup {item["id"]} |-> IF i = item["id"] THEN item ELSE its[i]]

\* GetItem: the item, or no Item in the result.
GetCommand(its, id) == IF id \in DOMAIN its THEN Item(its[id]) ELSE NullResult

\* UpdateItem with SET clauses and no condition: the clauses are applied to
\* the stored item, or to a new item holding only the key.
UpdatedItem(its, id, sets) ==
    IF id \in DOMAIN its THEN Merge(sets, its[id])
    ELSE Merge(sets, [k \in {"id"} |-> id])

\* UpdateItem as if it carried the condition attribute_exists(id).
UpdateCommand_OnlyExisting(its, id, sets) ==
    IF id \in DOMAIN its
    THEN [i \in DOMAIN its |-> IF i = id THEN UpdatedItem(its, id, sets) ELSE its[i]]
    ELSE its

UpdateCommand(its, id, sets) ==
    [i \in DOMAIN its \cup {id} |-> IF i = id THEN UpdatedItem(its, id, sets) ELSE its[i]]

\* DeleteItem as if it left the item in place.
DeleteCommand_Kept(its, id) == its

\* DeleteItem without a condition.
DeleteCommand(its, id) == [i \in DOMAIN its \ {id} |-> its[i]]

\* contains(path, operand) of a filter expression: the attribute exists and
\* the operand is a substring of it.
Contains(item, attr, needle) ==
    /\ attr \in DOMAIN item
    /\ \E i \in 1..(Len(item[attr]) - Len(needle) + 1) :
          SubSeq(item[attr], i, i + Len(needle) - 1) = needle

\* String.prototype.toLowerCase() on the letters of the model.
toLowerCase(s) ==
    [i \in 1..Len(s) |->
        CASE s[i] = "A" -> "a" [] s[i] = "B" -> "b" [] s[i] = "Y" -> "y"
          [] OTHER -> s[i]]

\* The FilterExpression of the scan each method sends (none for getAllStudents).
Filter(st, item) ==
    LET m == st.req.method
        q == st.req.query.s
    IN  CASE st.inner \/ m = "getAllStudents" -> TRUE
          [] m = "searchStudents" ->
                \/ Contains(item, "fullName", toLowerCase(q))
                \/ Contains(item, "email", toLowerCase(q))
                \/ Contains(item, "phoneNumber", toLowerCase(q))
          [] m = "getStudentsByAddress" -> Contains(item, "address", q)
          [] m = "getStudentsByEmailDomain" -> Contains(item, "email", q)

\* Scan reads the items in the order the store keeps their keys and ends a
\* page after PageLimit items (the store's page of 1 MB of items read); the
\* filter is applied to the items read.  The order of the keys is the store's
\* own: here, the order of the numbers the ids spell.
PageLimit == 6

KeyBefore(a, b) == Len(a) < Len(b) \/ (Len(a) = Len(b) /\ StrLess(a, b))

ScanPage(its) ==
    {i \in DOMAIN its : Cardinality({j \in DOMAIN its : KeyBefore(j, i)}) < PageLimit}

\* Scan without ExclusiveStartKey: the first page.  LastEvaluatedKey tells
\* that the page ended before the table did.
ScanCommand(its, st) ==
    [kind |-> "items",
     value |-> {its[i] : i \in {j \in ScanPage(its) : Filter(st, its[j])}},
     LastEvaluatedKey |-> ScanPage(its) # DOMAIN its]

\* return result.Items || [] (lines 227, 337, 362, 387): the page's items,
\* whatever its LastEvaluatedKey.
Items(resp) == [kind |-> "items", value |-> resp.value]

(***************************************************************************)
(* The record methods after ensureStudentTableExists has returned.         *)
(***************************************************************************)
\* lines 193-201: the three readings of the clock are t0 <= t1 <= t2.
newStudent(student, t0, t1, t2) ==
    [k \in {"id", "createdAt", "updatedAt"} \cup Fields |->
        CASE k = "id" -> toString(t0)
          [] k = "createdAt" -> toISOString(t1)
          [] k = "updatedAt" -> toISOString(t2)
          [] OTHER -> student[k].s]

\* updateExpression as if null and undefined values were not skipped.
updateExpression_NullsKept(updatedData, t) ==
    [k \in DOMAIN updatedData \cup {"updatedAt"} |->
        IF k = "updatedAt" THEN toISOString(t) ELSE updatedData[k].s]

\* lines 259-275: the SET clauses, one per supplied key whose value is
\* neither undefined nor null, and the one of updatedAt.
updateExpression(updatedData, t) ==
    LET keys == {k \in DOMAIN updatedData :
                    updatedData[k] # Undefined /\ updatedData[k] # Null}
    IN  [k \in keys \cup {"updatedAt"} |->
            IF k = "updatedAt" THEN toISOString(t) ELSE updatedData[k].s]

\* What the data command found under the key it names.
Found(its, id) == IF id \in DOMAIN its THEN Item(its[id]) ELSE [kind |-> "absent"]

Sent(st, found) ==
    [st EXCEPT !.log.data = @ + 1, !.log.dataOn = tableStatus, !.log.before = found]

BuildNewStudent(c) ==
    /\ call[c].pc = "newStudent"
    /\ \E d1, d2 \in 0..1 :
         /\ clock + d1 + d2 <= ClockStart + ClockSpan
         /\ clock' = clock + d1 + d2
         /\ call' = [call EXCEPT ![c].pc = "put",
                                 ![c].params =
                                     Item(newStudent(call[c].req.data, clock,
                                                     clock + d1, clock + d1 + d2))]
    /\ UNCHANGED <<tableStatus, items, faultsLeft, calls, allowed, ui>>

Put(c) ==
    /\ call[c].pc = "put"
    /\ \E faulty \in FaultChoices :
         LET item == call[c].params.value
             st == Sent(call[c], Found(items, item["id"]))
         IN  /\ faultsLeft' = SpendFault(faulty)
             /\ IF Granted("dynamodb:PutItem") /\ Accepts(tableStatus, faulty)
                THEN /\ items' = PutCommand(items, item)
                     /\ call' = [call EXCEPT ![c] = Return(st, Item(item))]
                ELSE /\ call' = [call EXCEPT ![c] =
                                   Catch(st, <<DataException(tableStatus, faulty).name>>)]
                     /\ UNCHANGED items
    /\ UNCHANGED <<tableStatus, clock, calls, allowed, ui>>

Scan(c) ==
    /\ call[c].pc = "scan"
    /\ \E faulty \in FaultChoices :
         LET st == Sent(call[c], [kind |-> "none"])
         IN  /\ faultsLeft' = SpendFault(faulty)
             /\ call' = [call EXCEPT ![c] =
                           IF Granted("dynamodb:Scan") /\ Accepts(tableStatus, faulty)
                           THEN Return(st, Items(ScanCommand(items, st)))
                           ELSE Catch(st, <<DataException(tableStatus, faulty).name>>)]
    /\ UNCHANGED <<tableStatus, calls, allowed, ui>>
    /\ StoreUnchanged

Get(c) ==
    /\ call[c].pc = "get"
    /\ \E faulty \in FaultChoices :
         LET st == Sent(call[c], Found(items, call[c].req.id))
         IN  /\ faultsLeft' = SpendFault(faulty)
             /\ call' = [call EXCEPT ![c] =
                           IF Granted("dynamodb:GetItem") /\ Accepts(tableStatus, faulty)
                           THEN Return(st, GetCommand(items, st.req.id))
                           ELSE Catch(st, <<DataException(tableStatus, faulty).name>>)]
    /\ UNCHANGED <<tableStatus, calls, allowed, ui>>
    /\ StoreUnchanged

BuildUpdateExpression(c) ==
    /\ call[c].pc = "updateExpression"
    /\ call' = [call EXCEPT ![c].pc = "update",
                            ![c].params =
                                Item(updateExpression(call[c].req.data, clock))]
    /\ UNCHANGED <<tableStatus, faultsLeft, calls, allowed, ui>>
    /\ StoreUnchanged

Update(c) ==
    /\ call[c].pc = "update"
    /\ \E faulty \in FaultChoices :
         LET id == call[c].req.id
             sets == call[c].params.value
             st == Sent(call[c], Found(items, id))
         IN  /\ faultsLeft' = SpendFault(faulty)
             /\ IF Granted("dynamodb:UpdateItem") /\ Accepts(tableStatus, faulty)
                THEN /\ items' = UpdateCommand(items, id, sets)
                     /\ call' = [call EXCEPT ![c] =
                                   Return(st, Item(UpdatedItem(items, id, sets)))]
                ELSE /\ call' = [call EXCEPT ![c] =
                                   Catch(st, <<DataException(tableStatus, faulty).name>>)]
                     /\ UNCHANGED items
    /\ UNCHANGED <<tableStatus, clock, calls, allowed, ui>>

Delete(c) ==
    /\ call[c].pc = "delete"
    /\ \E faulty \in FaultChoices :
         LET id == call[c].req.id
             st == Sent(call[c], Found(items, id))
         IN  /\ faultsLeft' = SpendFault(faulty)
             /\ IF Granted("dynamodb:DeleteItem") /\ Accepts(tableStatus, faulty)
                THEN /\ items' = DeleteCommand(items, id)
                     /\ call' = [call EXCEPT ![c] =
                                   Return(st, [kind |-> "deleted", value |-> id])]
                ELSE /\ call' = [call EXCEPT ![c] =
                                   Catch(st, <<DataException(tableStatus, faulty).name>>)]
                     /\ UNCHANGED items
    /\ UNCHANGED <<tableStatus, clock, calls, allowed, ui>>

Records(c) ==
    \/ BuildNewStudent(c)
    \/ Put(c)
    \/ Scan(c)
    \/ Get(c)
    \/ BuildUpdateExpression(c)
    \/ Update(c)
    \/ Delete(c)

Next ==
    \/ \E c \in Callers, r \in Requests : Start(c, r)
    \/ \E c \in Callers : CheckTableExists(c)
    \/ \E c \in Callers : Records(c)
    \/ Tick

Spec == Init /\ [][Next]_vars

(***************************************************************************)
(* First use: the table does not exist yet and one caller invokes the      *)
(* methods one after the other, so that the first of them has to create    *)
(* the table.                                                              *)
(***************************************************************************)
FirstCaller == CHOOSE c \in Callers : TRUE

InitFirstUse ==
    /\ tableStatus = "ABSENT"
    /\ items = [i \in {} |-> NoData]
    /\ clock = ClockStart
    /\ faultsLeft = MaxFaults
    /\ calls = 0
    /\ call = [c \in Callers |-> IdleCall]
    /\ allowed = StoreActions
    /\ ui = Unmounted

TableInfoRequest == Request("getTableInfo", <<>>, NoData, Undefined)

NextFirstUse ==
    \/ \E r \in Requests \cup {TableInfoRequest} : Start(FirstCaller, r)
    \/ Lifecycle(FirstCaller)
    \/ GetTableInfo(FirstCaller)
    \/ Records(FirstCaller)
    \/ TableBecomesActive
    \/ Tick

SpecFirstUse == InitFirstUse /\ [][NextFirstUse]_vars

(***************************************************************************)
(* Properties of the table lifecycle (SpecTable).                          *)
(***************************************************************************)
RaceLost == EnsureError(CreateTableError(<<"ResourceInUseException">>))
TimedOut == EnsureError(CreateTableError(TimeoutError))
DescribeFaulted == EnsureError(<<"InternalServerError">>)

\* C1: when two callers run ensureStudentTableExists concurrently while the
\* table is absent, no call fails because the other one created the table:
\* the create request answered "already exists" is followed by the poll and
\* by success.  (Stated as the claim has it; the code does not do this.)
C1_RaceLoserSucceeds ==
    \A c \in Callers : ~(call[c].pc = "failed" /\ call[c].error = RaceLost)

\* C2: a call that found the table absent sends exactly one CreateTable and
\* polls only after it; it returns success only after a poll reported ACTIVE,
\* and never while the table it created is not ACTIVE.
C2_CreateOnceThenPollUntilActive ==
    \A c \in Callers :
        LET st == call[c]
        IN  /\ st.log.creates <= 1
            /\ st.pc = "create" => st.log.creates = 0 /\ st.log.polls = 0
            /\ st.pc = "poll" => st.log.creates = 1
            /\ st.log.polls > 0 => st.log.creates = 1
            /\ st.pc = "done" /\ st.log.creates = 1 =>
                  /\ st.log.polls >= 1
                  /\ st.log.sawActive
                  /\ tableStatus = "ACTIVE"
            /\ st.pc = "done" /\ st.log.creates = 0 => st.log.polls = 0

C2_Witness ==
    \E c \in Callers :
        /\ call[c].pc = "done"
        /\ call[c].log.creates = 1
        /\ call[c].log.polls >= 2
        /\ call[c].log.sawActive

\* C3: a call of ensureStudentTableExists made by a caller whose previous
\* call returned success sends one DescribeTable, no CreateTable and no poll,
\* and returns success (unless the store faults that one describe).
C3_SecondEnsureIsOneDescribe ==
    \A c \in Callers :
        LET st == call[c]
        IN  st.log.afterOk =>
              /\ st.log.creates = 0
              /\ st.log.polls = 0
              /\ st.pc \in {"check", "done", "failed"}
              /\ st.pc = "check" => st.log.checks = 0
              /\ st.pc = "done" => st.log.checks = 1
              /\ st.pc = "failed" => st.log.checks = 1 /\ st.error = DescribeFaulted

C3_Witness ==
    \E c \in Callers :
        /\ call[c].log.afterOk
        /\ call[c].pc = "done"
        /\ call[c].log.checks = 1
        /\ call[c].log.creates = 0

\* C4: waitForTableActive sends at most maxAttempts describes whatever the
\* store answers: each describe that is answered otherwise than ACTIVE,
\* thrown ones included, costs one attempt; the first ACTIVE answer ends the
\* wait with success; after maxAttempts describes without one, the wait ends
\* with the timeout error.
C4_PollIsBounded ==
    \A c \in Callers :
        LET st == call[c]
        IN  /\ st.attempts <= maxAttempts
            /\ st.log.polls <= maxAttempts
            /\ st.pc = "poll" => st.log.polls = st.attempts /\ ~st.log.sawActive
            /\ st.log.sawActive => st.pc = "done" /\ st.log.polls = st.attempts + 1
            /\ st.pc = "failed" /\ st.log.polls > 0 =>
                  /\ st.log.polls = maxAttempts
                  /\ ~st.log.sawActive
                  /\ st.error = TimedOut
            /\ st.error = TimedOut => st.pc = "failed" /\ st.log.polls = maxAttempts

\* A wait that timed out although the table was ACTIVE in the end: describes
\* were thrown.
C4_Witness ==
    \E c \in Callers :
        /\ call[c].pc = "failed"
        /\ call[c].error = TimedOut
        /\ call[c].log.polls = maxAttempts
        /\ tableStatus = "ACTIVE"

(***************************************************************************)
(* Properties of the record methods.                                       *)
(***************************************************************************)
RecordMethods == Methods \ {"ensureStudentTableExists"}

C5_Order ==
    \A c \in Callers :
        LET st == call[c]
        IN  /\ st.log.data > 0 => st.log.ensure = "ok"
            /\ st.log.ensure = "failed" => st.log.data = 0 /\ st.pc = "failed"

C5_Frame ==
    \A c \in Callers :
        call'[c] # call[c] /\ call'[c].log.ensure # "ok" => items' = items

\* C5: in every record method no data command is sent before the call's
\* ensureStudentTableExists has returned true; if it throws, the call sends
\* no data command and the steps of the call leave the items as they are.
C5_EnsureBeforeData == []C5_Order /\ [][C5_Frame]_vars

\* A record method whose ensureStudentTableExists threw.
C5_Witness ==
    \E c \in Callers :
        /\ call[c].req.method \in RecordMethods
        /\ call[c].pc = "failed"
        /\ call[c].log.ensure = "failed"
        /\ call[c].log.data = 0

\* C6 as claimed: a call in which ensureStudentTableExists threw fails with
\* the very error ensureStudentTableExists threw.
C6_SameWrappedError ==
    \A c \in Callers :
        call[c].pc = "failed" /\ call[c].log.ensure = "failed" =>
            call[c].error = call[c].log.ensureError

\* C6 amended: ensureStudentTableExists throws 'Failed to ensure table
\* exists: <cause>'; a record method in which it threw fails with the
\* method's own fixed message, which carries neither that text nor the cause.
C6_FixedMessage ==
    \A c \in Callers :
        LET st == call[c]
        IN  st.pc = "failed" /\ st.log.ensure = "failed" =>
              /\ Head(st.log.ensureError) = "Failed to ensure table exists"
              /\ Len(st.log.ensureError) >= 2
              /\ IF st.req.method = "ensureStudentTableExists"
                 THEN st.error = st.log.ensureError
                 ELSE /\ st.error = FailureMessage(st.req.method)
                      /\ st.error # st.log.ensureError

\* createStudent fails after the wait for the table timed out.
C6_Witness ==
    \E c \in Callers :
        /\ call[c].req.method = "createStudent"
        /\ call[c].pc = "failed"
        /\ call[c].log.ensureError = TimedOut
        /\ call[c].error = <<"Failed to create student">>

\* C7: every record createStudent returns has a non-empty id and a createdAt
\* equal to its updatedAt, however the clock moves during the call.
C7_CreatedEqualsUpdated ==
    \A c \in Callers :
        call[c].pc = "done" /\ call[c].req.method = "createStudent" =>
            /\ call[c].result.value["id"] # <<>>
            /\ call[c].result.value["createdAt"] = call[c].result.value["updatedAt"]

\* C8: two successful calls of createStudent return records with distinct
\* ids, so neither overwrites the other's record.
C8_IdsUnique ==
    \A c, d \in Callers :
        /\ c # d
        /\ call[c].pc = "done" /\ call[c].req.method = "createStudent"
        /\ call[d].pc = "done" /\ call[d].req.method = "createStudent"
        => /\ call[c].result.value["id"] # call[d].result.value["id"]
           /\ Cardinality(DOMAIN items) >= 2

\* The keys of updatedData whose value is neither null nor undefined.
Supplied(data) == {k \in DOMAIN data : data[k].t = "string"}

\* new is old with exactly the supplied fields and updatedAt set.
UpdateFrame(old, new, data) ==
    /\ DOMAIN new = DOMAIN old \cup Supplied(data) \cup {"updatedAt"}
    /\ \A k \in Supplied(data) : new[k] = data[k].s
    /\ \A k \in DOMAIN old \ (Supplied(data) \cup {"updatedAt"}) : new[k] = old[k]

\* C9 as claimed: updateStudent on a stored record returns the record with
\* exactly the supplied non-null fields changed, and an updatedAt strictly
\* greater than the one it had.
C9_FrameAndLaterStamp ==
    \A c \in Callers :
        LET st == call[c]
        IN  /\ st.pc = "done"
            /\ st.req.method = "updateStudent"
            /\ st.log.before.kind = "item"
            => /\ UpdateFrame(st.log.before.value, st.result.value, st.req.data)
               /\ StrLess(st.log.before.value["updatedAt"], st.result.value["updatedAt"])

C9_Step(c) ==
    /\ call[c].pc = "update"
    /\ call'[c].pc = "done"
    /\ call[c].req.id \in DOMAIN items
    => LET id == call[c].req.id
       IN  /\ DOMAIN items' = DOMAIN items
           /\ \A j \in DOMAIN items \ {id} : items'[j] = items[j]
           /\ UpdateFrame(items[id], items'[id], call[c].req.data)
           /\ items'[id]["updatedAt"] \in {toISOString(t) : t \in ClockStart..clock}
           /\ call'[c].result = Item(items'[id])

\* C9 amended: updateStudent on a stored record, with fields among the four
\* of a student, changes exactly the supplied fields whose value is neither
\* null nor undefined and sets updatedAt to a reading of the clock the call
\* took before it sent the update; every other attribute and every other
\* record keep their value, and the call returns the whole updated record.
\* (The new updatedAt need not be greater than the old one.)
C9_FrameAndStamp == [][\A c \in Callers : C9_Step(c)]_vars

\* An update with a null and an undefined value has been applied to a
\* stored record.
C9_Witness ==
    \E c \in Callers :
        /\ call[c].pc = "done"
        /\ call[c].req.method = "updateStudent"
        /\ call[c].log.before.kind = "item"
        /\ Supplied(call[c].req.data) # DOMAIN call[c].req.data
        /\ call[c].result.value["phoneNumber"] # call[c].log.before.value["phoneNumber"]

C10_Step(c) ==
    LET id == call[c].req.id
        data == call[c].req.data
    IN  /\ call[c].pc = "update" /\ call'[c] # call[c] /\ id \notin DOMAIN items =>
            \/ /\ call'[c].pc = "done"
               /\ id \in DOMAIN items'
               /\ DOMAIN items'[id] = {"id", "updatedAt"} \cup Supplied(data)
               /\ items'[id]["id"] = id
               /\ \A k \in Supplied(data) : items'[id][k] = data[k].s
               /\ items'[id]["updatedAt"] \in {toISOString(t) : t \in ClockStart..clock}
               /\ call'[c].result = Item(items'[id])
            \/ /\ call'[c].pc = "failed"
               /\ faultsLeft' < faultsLeft
               /\ items' = items
        /\ call[c].pc = "get" /\ call'[c].pc = "done" =>
               call'[c].result = IF id \in DOMAIN items THEN Item(items[id]) ELSE NullResult

\* C10: updateStudent for an id that is not stored fails only if the store
\* faults; otherwise it stores a record holding the id, the supplied
\* non-null fields and updatedAt and nothing else (no createdAt), returns it,
\* and getStudentById returns what is stored under the id.
C10_UpdateCreates == [][\A c \in Callers : C10_Step(c)]_vars

\* getStudentById has returned a record that an update created.
C10_Witness ==
    \E c \in Callers :
        /\ call[c].pc = "done"
        /\ call[c].req.method = "getStudentById"
        /\ call[c].result.kind = "item"
        /\ "createdAt" \notin DOMAIN call[c].result.value
        /\ call[c].req.id \in DOMAIN items
        /\ call[c].result.value = items[call[c].req.id]

(***************************************************************************)
(* A table in use: it holds the records that earlier createStudent calls   *)
(* stored, one per millisecond before the clock's first value, and one     *)
(* caller reads and deletes.                                               *)
(***************************************************************************)
StockSize == 7

Letters == <<"a", "b", "c", "d", "e", "f", "g", "h", "i", "j">>

\* The object the form handed to the k-th of the earlier createStudent calls.
StockStudent(k) ==
    [fullName |-> Str(<<IF k % 2 = 1 THEN "A" ELSE "a", "b">>),
     address |-> Str(<<IF k % 2 = 1 THEN "Y" ELSE "y">>),
     email |-> Str(<<Letters[k], "@", IF k % 2 = 1 THEN "f" ELSE "g">>),
     phoneNumber |-> Str(toString(k))]

StockTime(k) == ClockStart - StockSize - 1 + k

StockId(k) == toString(StockTime(k))

\* The table after the first n of them.
Stock(n) ==
    [i \in {StockId(k) : k \in 1..n} |->
        LET k == CHOOSE k \in 1..n : StockId(k) = i
        IN  newStudent(StockStudent(k), StockTime(k), StockTime(k), StockTime(k))]

InitStocked ==
    /\ tableStatus = "ACTIVE"
    /\ \E n \in 0..StockSize : items = Stock(n)
    /\ clock = ClockStart
    /\ faultsLeft = MaxFaults
    /\ calls = 0
    /\ call = [c \in Callers |-> IdleCall]
    /\ allowed = StoreActions
    /\ ui = Unmounted

\* The ids asked for: the oldest record's and one that no record has.
StockedIds == {StockId(1), toString(ClockStart)}

StockedRequests ==
    {Request("getAllStudents", <<>>, NoData, Undefined)}
    \cup {Request(m, i, NoData, Undefined) :
            m \in {"getStudentById", "deleteStudent"}, i \in StockedIds}
    \cup {Request("searchStudents", <<>>, NoData, q) :
            q \in {Str(<<>>), Str(<<" ">>), Null, Undefined,
                   Str(<<"A">>), Str(<<"g">>)}}
    \cup {Request("getStudentsByAddress", <<>>, NoData, Str(<<"Y">>))}
    \cup {Request("getStudentsByEmailDomain", <<>>, NoData, q) :
            q \in {Str(<<"f">>), Str(<<"@", "G">>)}}

NextStocked ==
    \/ \E r \in StockedRequests : Start(FirstCaller, r)
    \/ CheckTableExists(FirstCaller)
    \/ Scan(FirstCaller)
    \/ Get(FirstCaller)
    \/ Delete(FirstCaller)

SpecStocked == InitStocked /\ [][NextStocked]_vars

(***************************************************************************)
(* C11: deleteStudent(id) returns the id whether or not a record has it    *)
(* and fails only when the store faults the command; it removes the record *)
(* of that id and no other, and changes no other record.  The id then has  *)
(* no record, and a getStudentById(id) that finds none returns null.       *)
(***************************************************************************)
C11_Step(c) ==
    LET st == call[c]
        st1 == call'[c]
        id == st.req.id
    IN  /\ (st.pc = "delete" /\ st1 # st) =>
              \/ /\ st1.pc = "done"
                 /\ st1.result = [kind |-> "deleted", value |-> id]
                 /\ DOMAIN items' = DOMAIN items \ {id}
                 /\ \A i \in DOMAIN items' : items'[i] = items[i]
              \/ /\ st1.pc = "failed"
                 /\ st1.error = FailureMessage("deleteStudent")
                 /\ faultsLeft' < faultsLeft
                 /\ items' = items
        /\ (st.pc = "get" /\ st1 # st /\ id \notin DOMAIN items) =>
              \/ st1.pc = "done" /\ st1.result = NullResult
              \/ st1.pc = "failed" /\ faultsLeft' < faultsLeft

C11_Deleted ==
    \A c \in Callers :
        (call[c].pc = "done" /\ call[c].req.method = "deleteStudent")
            => call[c].req.id \notin DOMAIN items

C11_DeleteThenAbsent ==
    []C11_Deleted /\ [][\A c \in Callers : C11_Step(c)]_vars

\* The oldest record was stored (the second still is), deleteStudent removed
\* it and the getStudentById that followed returned null.
C11_Witness ==
    \E c \in Callers :
        /\ call[c].pc = "done"
        /\ call[c].req.method = "getStudentById"
        /\ call[c].req.id = StockId(1)
        /\ call[c].result = NullResult
        /\ StockId(2) \in DOMAIN items
        /\ StockId(1) \notin DOMAIN items

(***************************************************************************)
(* C12: absence is answered with null, never with an error.  getTableInfo  *)
(* sends one describe and changes nothing: it returns null when there is   *)
(* no table, the table's metadata when there is one, and throws its own    *)
(* message only when the store faults the describe.  getStudentById for an *)
(* id that has no record returns null; it throws its own message only when *)
(* the store faults the command or the table is not active.                *)
(***************************************************************************)
C12_Step(c) ==
    LET st == call[c]
        st1 == call'[c]
    IN  /\ (st.pc = "info" /\ st1 # st) =>
              /\ tableStatus' = tableStatus
              /\ items' = items
              /\ st1.log.creates = 0
              /\ \/ /\ st1.pc = "done"
                    /\ IF tableStatus = "ABSENT"
                       THEN st1.result = NullResult
                       ELSE /\ st1.result.kind = "info"
                            /\ st1.result.value.status = tableStatus
                 \/ /\ st1.pc = "failed"
                    /\ st1.error = <<"Failed to get table information">>
                    /\ faultsLeft' < faultsLeft
        /\ (st.pc = "get" /\ st1 # st /\ st.req.id \notin DOMAIN items) =>
              \/ st1.pc = "done" /\ st1.result = NullResult
              \/ /\ st1.pc = "failed"
                 /\ st1.error = <<"Failed to fetch student">>
                 /\ faultsLeft' < faultsLeft \/ tableStatus # "ACTIVE"

C12_AbsenceIsNull == [][\A c \in Callers : C12_Step(c)]_vars

\* getTableInfo returned null and there is still no table.
C12_Witness ==
    \E c \in Callers :
        /\ call[c].req.method = "getTableInfo"
        /\ call[c].pc = "done"
        /\ call[c].result = NullResult
        /\ tableStatus = "ABSENT"

\* The records a call finds stored once it has returned: the one caller of
\* the table in use is the only one to change it.
Stored == {items[i] : i \in DOMAIN items}

Returned(c, method) ==
    call[c].pc = "done" /\ call[c].req.method = method

\* A query that is null, undefined, empty or made of whitespace only.
NothingAsked(q) == q.t # "string" \/ \A i \in 1..Len(q.s) : q.s[i] = " "

(***************************************************************************)
(* C13: getAllStudents returns every record of the table, however many     *)
(* there are.                                                              *)
(***************************************************************************)
C13_GetAllReturnsAll ==
    \A c \in Callers :
        Returned(c, "getAllStudents") => call[c].result.value = Stored

(***************************************************************************)
(* C14: searchStudents(q) with a query that is not blank returns exactly   *)
(* the stored records whose fullName, email or phoneNumber contains the    *)
(* lowercased q.                                                           *)
(***************************************************************************)
C14_SearchReturnsMatches ==
    \A c \in Callers :
        Returned(c, "searchStudents") /\ ~NothingAsked(call[c].req.query) =>
            call[c].result.value =
                {r \in Stored :
                    \E f \in {"fullName", "email", "phoneNumber"} :
                        Contains(r, f, toLowerCase(call[c].req.query.s))}

(***************************************************************************)
(* C15: searchStudents with an empty, null, undefined or whitespace-only   *)
(* query returns what getAllStudents returns on the same table.            *)
(***************************************************************************)
GetAllOn(its) ==
    Items(ScanCommand(its, [IdleCall EXCEPT
                               !.req = Request("getAllStudents", <<>>, NoData, Undefined)]))

C15_BlankSearchIsGetAll ==
    \A c \in Callers :
        Returned(c, "searchStudents") /\ NothingAsked(call[c].req.query) =>
            call[c].result = GetAllOn(items)

\* A whitespace-only search returned records.
C15_Witness ==
    \E c \in Callers :
        /\ Returned(c, "searchStudents")
        /\ call[c].req.query = Str(<<" ">>)
        /\ call[c].result.value # {}

(***************************************************************************)
(* C16: getStudentsByEmailDomain(s) returns exactly the stored records     *)
(* whose email contains s as it was given: of the records with the emails  *)
(* a@f, b@g and c@f, those of the first and the third for s = "f".         *)
(***************************************************************************)
C16_DomainReturnsMatches ==
    \A c \in Callers :
        Returned(c, "getStudentsByEmailDomain") =>
            call[c].result.value =
                {r \in Stored : Contains(r, "email", call[c].req.query.s)}

(***************************************************************************)
(* The setup of the guide (DYNAMODB_SETUP): the table was created by hand  *)
(* and is active, the store works, and the credentials carry the guide's   *)
(* policy, which grants the data commands only.                            *)
(***************************************************************************)
GuidePolicy ==
    {"dynamodb:GetItem", "dynamodb:PutItem", "dynamodb:UpdateItem",
     "dynamodb:DeleteItem", "dynamodb:Scan", "dynamodb:Query"}

InitGuide ==
    /\ tableStatus = "ACTIVE"
    /\ items = [i \in {} |-> NoData]
    /\ clock = ClockStart
    /\ faultsLeft = 0
    /\ calls = 0
    /\ call = [c \in Callers |-> IdleCall]
    /\ allowed = GuidePolicy
    /\ ui = Unmounted

\* Every record method starts with checkTableExists, whose describe this
\* policy refuses: no call comes to a further step.
NextGuide ==
    \/ \E c \in Callers, r \in Requests : Start(c, r)
    \/ \E c \in Callers : CheckTableExists(c)

SpecGuide == InitGuide /\ [][NextGuide]_vars

(***************************************************************************)
(* C17: under the guide's setup createStudent does not fail.               *)
(***************************************************************************)
C17_CreateSucceedsUnderGuidePolicy ==
    \A c \in Callers :
        call[c].req.method = "createStudent" => call[c].pc # "failed"

(***************************************************************************)
(* C18: ensureStudentTableExists does not return true while the table is   *)
(* still being created, whoever created it.  (No table stops being active  *)
(* once it is.)                                                            *)
(***************************************************************************)
C18_TrueOnlyWhenActive ==
    \A c \in Callers :
        (call[c].pc = "done" /\ call[c].req.method = "ensureStudentTableExists")
            => tableStatus = "ACTIVE"

(***************************************************************************)
(* The student list (src/src/components/StudentManagement.jsx) on a table  *)
(* in use.  ui holds the component's state, the debounce timer of the      *)
(* search box and the handlers that wait for the service (tasks).  A call  *)
(* of the service is one step here, taken when its answer arrives: the     *)
(* table is active and the store works, so ensureStudentTableExists is a   *)
(* describe without effect and the call is its data command.  The answers  *)
(* of calls in flight arrive in any order.                                 *)
(***************************************************************************)
MaxEvents == 3       \* clicks and keystrokes per behaviour
MaxTasks == 2        \* handlers waiting for the service at one time

maxVisiblePages == 5
PageSizes == {5, 10, 20, 50}

\* What the user types into the search box.
SearchInputs == {<<>>, <<" ">>, <<"g">>}

NoId == <<>>
NoSeen == [totalStudents |-> 0, currentPage |-> 0, pageSize |-> 0]

\* A handler waiting for the service: the call it awaits, what it goes on
\* with after loadStudents (then), the arguments of the call, and the state
\* its closure saw when the handler was invoked.
Task(kind, then, id, query, data, seen) ==
    [kind |-> kind, then |-> then, id |-> id, query |-> query, data |-> data,
     seen |-> seen]

\* The array the service returns, in the order of the scan.
RECURSIVE Listed(_)
Listed(records) ==
    IF records = {} THEN <<>>
    ELSE LET r == CHOOSE r \in records :
                     \A o \in records \ {r} : KeyBefore(r["id"], o["id"])
         IN  <<r>> \o Listed(records \ {r})

\* studentService.getAllStudents() and studentService.searchStudents(query)
\* as answered on the table its.
getAllStudents(its) == Listed(GetAllOn(its).value)

searchStudents(its, query) ==
    IF BlankQuery(Str(query)) THEN getAllStudents(its)
    ELSE Listed(Items(ScanCommand(its,
                    [IdleCall EXCEPT !.req = Request("searchStudents", <<>>,
                                                     NoData, Str(query))])).value)

\* Math.ceil(a / b) for b > 0
Ceil(a, b) == (a + b - 1) \div b

\* lines 191-194
totalPages == Ceil(ui.totalStudents, ui.pageSize)
startIndex == (ui.currentPage - 1) * ui.pageSize
endIndex == startIndex + ui.pageSize
currentStudents ==
    IF startIndex >= Len(ui.students) THEN <<>>
    ELSE SubSeq(ui.students, startIndex + 1,
                IF endIndex < Len(ui.students) THEN endIndex ELSE Len(ui.students))

\* lines 229-267: the numbered buttons
getPageNumbers ==
    IF totalPages <= maxVisiblePages THEN 1..totalPages
    ELSE IF ui.currentPage <= 3 THEN (1..4) \cup {totalPages}
    ELSE IF ui.currentPage >= totalPages - 2
    THEN {1} \cup ((totalPages - 3)..totalPages)
    ELSE {1, totalPages} \cup ((ui.currentPage - 1)..(ui.currentPage + 1))

\* lines 7-23 and the effects of lines 26-46 on mount: initializeTable is
\* awaiting ensureStudentTableExists and the debounce timer is set.
Mounted ==
    [tableStatus |-> "initializing", students |-> <<>>, totalStudents |-> 0,
     searchQuery |-> <<>>, currentPage |-> 1, pageSize |-> 10,
     loading |-> FALSE, editingId |-> NoId, timer |-> TRUE,
     tasks |-> <<Task("ensure", "none", NoId, <<>>, NoData, NoSeen)>>,
     events |-> 0]

InitUI ==
    /\ tableStatus = "ACTIVE"
    /\ items = Stock(StockSize)
    /\ clock = ClockStart
    /\ faultsLeft = 0
    /\ calls = 0
    /\ call = [c \in Callers |-> IdleCall]
    /\ allowed = StoreActions
    /\ ui = Mounted

TableUnchanged == UNCHANGED <<tableStatus, items, clock, faultsLeft, calls, call, allowed>>

Without(tasks, k) == SubSeq(tasks, 1, k - 1) \o SubSeq(tasks, k + 1, Len(tasks))

\* The main view is rendered (lines 270-298) and its controls are not
\* disabled (disabled={loading}); the user has an event left.
Usable == ui.tableStatus = "ready" /\ ~ui.loading /\ ui.events < MaxEvents

\* A user's event that makes a handler wait for the service.
Awaiting(u, task) ==
    [u EXCEPT !.tasks = Append(@, task), !.events = ui.events + 1]

\* lines 66-70: loadStudents up to its await.
loadStudents(u, then, seen) ==
    [u EXCEPT !.loading = TRUE,
              !.tasks = Append(@, Task("load", then, NoId, <<>>, NoData, seen))]

\* lines 167-177: performSearch up to its await.
performSearch(u, query) ==
    IF trim(query) # <<>>
    THEN [u EXCEPT !.loading = TRUE,
                   !.tasks = Append(@, Task("search", "none", NoId, query,
                                            NoData, NoSeen))]
    ELSE loadStudents([u EXCEPT !.loading = TRUE], "search", NoSeen)

\* lines 162-164 and the effects of lines 31-46: the query changes, the page
\* is reset and the debounce timer is set anew.
handleSearchInputChange(q) ==
    /\ Usable
    /\ q # ui.searchQuery
    /\ ui' = [ui EXCEPT !.searchQuery = q, !.currentPage = 1, !.timer = TRUE,
                        !.events = @ + 1]
    /\ TableUnchanged

\* lines 37-43: the debounce timer fires.
DebounceFires ==
    /\ ui.timer
    /\ Len(ui.tasks) < MaxTasks
    /\ ui' = LET u == [ui EXCEPT !.timer = FALSE]
             IN  IF ui.searchQuery # <<>>
                 THEN performSearch(u, ui.searchQuery)
                 ELSE loadStudents(u, "none", NoSeen)
    /\ TableUnchanged

\* lines 186-188 and 48-54: the refresh button.
handleRefreshTable ==
    /\ Usable
    /\ Len(ui.tasks) < MaxTasks
    /\ ui' = Awaiting([ui EXCEPT !.tableStatus = "initializing"],
                      Task("ensure", "none", NoId, <<>>, NoData, NoSeen))
    /\ TableUnchanged

\* lines 54-58: ensureStudentTableExists has returned to initializeTable.
initializeTable(k) ==
    /\ ui.tasks[k].kind = "ensure"
    /\ ui' = loadStudents([ui EXCEPT !.tableStatus = "ready",
                                     !.tasks = Without(@, k)], "none", NoSeen)
    /\ TableUnchanged

\* lines 128-138
handleEdit(student) ==
    /\ Usable
    /\ ui' = [ui EXCEPT !.editingId = student["id"], !.events = @ + 1]
    /\ TableUnchanged

\* lines 89-99: the cancel button of the form.
resetForm ==
    /\ Usable
    /\ ui.editingId # NoId
    /\ ui' = [ui EXCEPT !.editingId = NoId, !.events = @ + 1]
    /\ TableUnchanged

\* lines 101-114: the form is submitted with formData.
handleSubmit(formData) ==
    /\ Usable
    /\ Len(ui.tasks) < MaxTasks
    /\ ui' = Awaiting([ui EXCEPT !.loading = TRUE],
                      Task("save", "submit", ui.editingId, <<>>, formData, NoSeen))
    /\ TableUnchanged

\* lines 140-145: the delete button of a row, confirmed.
handleDelete(id) ==
    /\ Usable
    /\ Len(ui.tasks) < MaxTasks
    /\ ui' = Awaiting([ui EXCEPT !.loading = TRUE],
                      Task("delete", "delete", id, <<>>, NoData,
                           [totalStudents |-> ui.totalStudents,
                            currentPage |-> ui.currentPage,
                            pageSize |-> ui.pageSize]))
    /\ TableUnchanged

\* lines 70-78: getAllStudents has answered loadStudents; then the handler
\* that awaited loadStudents goes on (lines 117-119, 148-151).
loadStudentsReturns(k) ==
    /\ ui.tasks[k].kind = "load"
    /\ ui' = LET t == ui.tasks[k]
                 allStudents == getAllStudents(items)
                 u == [ui EXCEPT !.students = allStudents,
                                 !.totalStudents = Len(allStudents),
                                 !.loading = FALSE,
                                 !.tasks = Without(@, k)]
                 maxPage == Ceil(t.seen.totalStudents - 1, t.seen.pageSize)
             IN  CASE t.then = "submit" ->
                        [u EXCEPT !.editingId = NoId, !.currentPage = 1]
                   [] t.then = "delete" ->
                        IF t.seen.currentPage > maxPage /\ maxPage > 0
                        THEN [u EXCEPT !.currentPage = maxPage]
                        ELSE u
                   [] OTHER -> u
    /\ TableUnchanged

\* lines 172-174 and 181-183: searchStudents has answered performSearch.
performSearchReturns(k) ==
    /\ ui.tasks[k].kind = "search"
    /\ ui' = LET results == searchStudents(items, ui.tasks[k].query)
             IN  [ui EXCEPT !.students = results,
                            !.totalStudents = Len(results),
                            !.loading = FALSE,
                            !.tasks = Without(@, k)]
    /\ TableUnchanged

\* lines 108-116: updateStudent or createStudent has answered handleSubmit,
\* which calls loadStudents.
handleSubmitSaved(k) ==
    /\ ui.tasks[k].kind = "save"
    /\ LET t == ui.tasks[k]
       IN  /\ items' = IF t.id # NoId
                       THEN UpdateCommand(items, t.id, updateExpression(t.data, clock))
                       ELSE PutCommand(items, newStudent(t.data, clock, clock, clock))
           /\ ui' = loadStudents([ui EXCEPT !.tasks = Without(@, k)],
                                 "submit", NoSeen)
    /\ UNCHANGED <<tableStatus, clock, faultsLeft, calls, call, allowed>>

\* lines 145-146: deleteStudent has answered handleDelete, which calls
\* loadStudents.
handleDeleteDeleted(k) ==
    /\ ui.tasks[k].kind = "delete"
    /\ LET t == ui.tasks[k]
       IN  /\ items' = DeleteCommand(items, t.id)
           /\ ui' = loadStudents([ui EXCEPT !.tasks = Without(@, k)],
                                 "delete", t.seen)
    /\ UNCHANGED <<tableStatus, clock, faultsLeft, calls, call, allowed>>

\* The page buttons are rendered (lines 446 and 493) and not disabled.
Paging == Usable /\ currentStudents # <<>> /\ totalPages > 1

\* lines 197-199, from a numbered button
goToPage(page) ==
    /\ Paging
    /\ ui' = [ui EXCEPT !.currentPage =
                            LET least == IF page < totalPages THEN page ELSE totalPages
                            IN  IF least > 1 THEN least ELSE 1,
                        !.events = @ + 1]
    /\ TableUnchanged

\* lines 201-205; the button is disabled on the last page (line 529)
goToNextPage ==
    /\ Paging
    /\ ui.currentPage # totalPages
    /\ ui' = [ui EXCEPT !.currentPage = IF @ < totalPages THEN @ + 1 ELSE @,
                        !.events = @ + 1]
    /\ TableUnchanged

\* lines 207-211; the button is disabled on the first page (line 509)
goToPreviousPage ==
    /\ Paging
    /\ ui.currentPage # 1
    /\ ui' = [ui EXCEPT !.currentPage = IF @ > 1 THEN @ - 1 ELSE @,
                        !.events = @ + 1]
    /\ TableUnchanged

\* lines 213-215; the button is disabled on the first page (line 501)
goToFirstPage ==
    /\ Paging
    /\ ui.currentPage # 1
    /\ ui' = [ui EXCEPT !.currentPage = 1, !.events = @ + 1]
    /\ TableUnchanged

\* lines 217-219; the button is disabled on the last page (line 537)
goToLastPage ==
    /\ Paging
    /\ ui.currentPage # totalPages
    /\ ui' = [ui EXCEPT !.currentPage = totalPages, !.events = @ + 1]
    /\ TableUnchanged

\* lines 222-226
handlePageSizeChange(newPageSize) ==
    /\ Usable
    /\ newPageSize # ui.pageSize
    /\ ui' = [ui EXCEPT !.pageSize = newPageSize, !.currentPage = 1,
                        !.events = @ + 1]
    /\ TableUnchanged

Handlers ==
    \/ \E q \in SearchInputs : handleSearchInputChange(q)
    \/ handleRefreshTable
    \/ \E i \in 1..Len(currentStudents) : handleEdit(currentStudents[i])
    \/ resetForm
    \/ \E formData \in StudentInputs : handleSubmit(formData)
    \/ \E i \in 1..Len(currentStudents) : handleDelete(currentStudents[i]["id"])
    \/ \E page \in getPageNumbers : goToPage(page)
    \/ goToNextPage
    \/ goToPreviousPage
    \/ goToFirstPage
    \/ goToLastPage
    \/ \E n \in PageSizes : handlePageSizeChange(n)

Answers(k) ==
    \/ initializeTable(k)
    \/ loadStudentsReturns(k)
    \/ performSearchReturns(k)
    \/ handleSubmitSaved(k)
    \/ handleDeleteDeleted(k)

NextUI ==
    \/ Handlers
    \/ DebounceFires
    \/ \E k \in 1..Len(ui.tasks) : Answers(k)

SpecUI == InitUI /\ [][NextUI]_vars

(***************************************************************************)
(* C19: when no handler waits for the service and no debounce timer is     *)
(* set, the list shown is what the service answers for the content of the  *)
(* search box: searchStudents' result for a query that is not blank, every *)
(* student getAllStudents returns for a blank one.                         *)
(***************************************************************************)
C19_ListMatchesSearchBox ==
    (ui.tasks = <<>> /\ ~ui.timer) =>
        ui.students = IF trim(ui.searchQuery) = <<>>
                      THEN getAllStudents(items)
                      ELSE searchStudents(items, ui.searchQuery)

(***************************************************************************)
(* C20: while the list holds students the current page is one of its       *)
(* pages, 1 <= currentPage <= totalPages.                                  *)
(***************************************************************************)
C20_PageInRange ==
    ui.students # <<>> => 1 <= ui.currentPage /\ ui.currentPage <= totalPages

====
